---- MODULE Spec2Model ----
(***************************************************************************)
(* asyncwrap: the #[blocking_impl] block transformer of                    *)
(* asyncwrap-macros/src/lib.rs and the behaviour of the methods it emits.  *)
(*                                                                         *)
(* Spec      expansion of one #[blocking_impl(...)] impl block, then one   *)
(*           call of one emitted async method at run time                  *)
(* FairSpec  Spec with the progress the tokio runtime gives a call         *)
(***************************************************************************)
EXTENDS Integers, Sequences, FiniteSets

VARIABLES
    attr,           \* blocking_impl's attr argument: the block configuration
    item,           \* blocking_impl's item argument: the impl block as written
    pc,             \* position inside blocking_impl
    args,           \* the parsed BlockingImplArgs (or the parse error)
    input,          \* the parsed, mutable ItemImpl
    idx,            \* index of the next item of the for loop
    async_methods,  \* synthesized methods so far
    errors,         \* syn::Error values recorded so far
    output,         \* the emitted token stream, a sequence of top-level units
    emitted,        \* run time: the emitted method being called
    caller,         \* run time: position of the calling async context
    task,           \* run time: the offloaded unit of work
    runner,         \* run time: which thread executes the blocking call
    result          \* run time: what the caller's .await evaluated to

expandVars == <<attr, item, pc, args, input, idx, async_methods, errors, output>>
runVars == <<emitted, caller, task, runner, result>>
vars == <<attr, item, pc, args, input, idx, async_methods, errors, output,
          emitted, caller, task, runner, result>>

(***************************************************************************)
(* Bounds                                                                  *)
(***************************************************************************)
MaxItems == 2

(***************************************************************************)
(* Option<T> is a sequence of length 0 (None) or 1 (Some)                  *)
(***************************************************************************)
None == <<>>
Some(x) == <<x>>
IsSome(o) == Len(o) > 0
Unwrap(o) == o[1]

(***************************************************************************)
(* Syntax trees (syn): types, arguments, methods, impl blocks              *)
(***************************************************************************)
PathTy(segs, gen) == [kind |-> "Path", segments |-> segs, generics |-> gen]
TupleTy(elems) == [kind |-> "Tuple", segments |-> <<>>, generics |-> elems]

TyI32 == PathTy(<<"i32">>, <<>>)
TyString == PathTy(<<"String">>, <<>>)
TyResult == PathTy(<<"Result">>, <<"String", "MyError">>)
TyIoResult == PathTy(<<"io", "Result">>, <<"i32">>)
TyPair == TupleTy(<<"i32", "i32">>)

Receiver(ref, mut) ==
    [tag |-> "Receiver", reference |-> ref, mutability |-> mut]
Typed(patKind, name, ty) ==
    [tag |-> "Typed", pat |-> [kind |-> patKind, ident |-> name], ty |-> ty]

RefSelf == Receiver(TRUE, FALSE)

FirstArgs ==
    { <<>>, <<RefSelf>>, <<Receiver(TRUE, TRUE)>>, <<Receiver(FALSE, FALSE)>>,
      <<Receiver(FALSE, TRUE)>>, <<Typed("Ident", "x", TyI32)>> }

RestArgs ==
    { <<>>,
      <<Typed("Ident", "a", TyI32)>>,
      <<Typed("Ident", "a", TyI32), Typed("Ident", "b", TyString)>>,
      <<Typed("Tuple", "", TyPair), Typed("Ident", "b", TyString)>> }

Outputs == { None, Some(TyI32), Some(TyResult), Some(TyIoResult), Some(TyPair) }

Visibilities == { "pub", "pub(crate)", "" }

AttrLists ==
    { <<>>, <<"async_wrap">>, <<"doc", "async_wrap", "inline">>,
      <<"async_wrap", "allow", "async_wrap">> }

Fn(attrs, vis, isAsync, name, inputs, out) ==
    [kind |-> "Fn", attrs |-> attrs, vis |-> vis, asyncness |-> isAsync,
     ident |-> name, inputs |-> inputs, output |-> out, block |-> "{ .. }"]

Const(attrs, name) == [kind |-> "Const", attrs |-> attrs, ident |-> name]

\* Every method shape of the model; a single-method block ranges over all.
Methods ==
    { Fn(a, v, s, "m", f \o r, o) :
        a \in AttrLists, v \in Visibilities, s \in BOOLEAN,
        f \in FirstArgs, r \in RestArgs, o \in Outputs }

\* The item shapes the multi-item blocks are built from.
BlockItems ==
    { Fn(<<"async_wrap">>, "pub", FALSE, "m", <<RefSelf>>, Some(TyI32)),
      Fn(<<"doc", "async_wrap">>, "pub(crate)", FALSE, "m",
         <<RefSelf, Typed("Ident", "a", TyI32)>>, Some(TyResult)),
      Fn(<<"async_wrap">>, "pub", FALSE, "m",
         <<Receiver(TRUE, TRUE)>>, Some(TyI32)),
      Fn(<<"async_wrap">>, "pub", TRUE, "m", <<RefSelf>>, Some(TyI32)),
      Fn(<<"async_wrap">>, "pub", FALSE, "m", <<>>, Some(TyI32)),
      Fn(<<"async_wrap">>, "pub", FALSE, "m",
         <<Receiver(FALSE, FALSE)>>, None),
      Fn(<<"async_wrap">>, "pub", FALSE, "m",
         <<Typed("Ident", "x", TyI32)>>, None),
      Fn(<<>>, "", FALSE, "m", <<RefSelf>>, Some(TyI32)),
      Fn(<<"doc">>, "pub", FALSE, "m", <<Receiver(TRUE, TRUE)>>, None),
      Const(<<>>, "m") }

\* Identifiers given to the items of a block by position.
Idents == <<"get_value", "add", "might_fail", "do_work">>

Rename(items) == [i \in DOMAIN items |-> [items[i] EXCEPT !.ident = Idents[i]]]

SeqsUpTo(S, n) == UNION { [1..k -> S] : k \in 0..n }

GenericsSet ==
    { [params |-> <<>>, where_clause |-> None],
      [params |-> <<"T">>, where_clause |-> None],
      [params |-> <<"T">>, where_clause |-> Some("T: Clone")],
      [params |-> <<>>, where_clause |-> Some("u8: Send")] }

ItemImpl(generics, items) ==
    [self_ty |-> "BlockingClient", generics |-> generics, items |-> items]

Blocks ==
    { ItemImpl(g, Rename(s)) : g \in GenericsSet, s \in SeqsUpTo(BlockItems, MaxItems) }
    \cup { ItemImpl([params |-> <<>>, where_clause |-> None], Rename(<<m>>)) :
             m \in Methods }

\* The attr tokens: '<companion-type>' or '<companion-type>, <ident> = "<value>"'.
Attrs ==
    { [async_type |-> "AsyncClient", clause |-> None] }
    \cup { [async_type |-> "AsyncClient", clause |-> Some([ident |-> i, value |-> v])] :
             i \in {"strategy"},
             v \in {"spawn_blocking", "block_in_place", "invalid", "Spawn_Blocking", ""} }
    \cup { [async_type |-> "AsyncClient", clause |-> Some([ident |-> i, value |-> v])] :
             i \in {"mode"}, v \in {"spawn_blocking", "invalid"} }

(***************************************************************************)
(* syn::Error and Result                                                   *)
(***************************************************************************)
Error(span, message) == [span |-> span, message |-> message]
Ok(v) == [tag |-> "Ok", value |-> v]
Err(e) == [tag |-> "Err", error |-> e]
\* The unit value () and an opaque value of any other type.
UnitVal == [tag |-> "Unit"]
Val(v) == [tag |-> "Val", value |-> v]

(***************************************************************************)
(* Strategy and the configuration parser                                   *)
(***************************************************************************)
SpawnBlocking == "SpawnBlocking"
BlockInPlace == "BlockInPlace"
Strategy == { SpawnBlocking, BlockInPlace }
StrategyDefault == SpawnBlocking

BlockingImplArgs(ty, strategy) == [async_type |-> ty, strategy |-> strategy]

\* Mutant: an unknown strategy value falls back to the default.
parse_unknown_is_default(a) ==
    IF ~IsSome(a.clause) THEN Ok(BlockingImplArgs(a.async_type, StrategyDefault))
    ELSE LET ident == Unwrap(a.clause).ident
             value == Unwrap(a.clause).value
         IN IF ident # "strategy"
            THEN Err(Error(<<"attr", "ident">>, <<"expected 'strategy'">>))
            ELSE IF value = "block_in_place"
            THEN Ok(BlockingImplArgs(a.async_type, BlockInPlace))
            ELSE Ok(BlockingImplArgs(a.async_type, SpawnBlocking))

\* impl Parse for BlockingImplArgs
parse(a) ==
    IF ~IsSome(a.clause) THEN Ok(BlockingImplArgs(a.async_type, StrategyDefault))
    ELSE LET ident == Unwrap(a.clause).ident
             value == Unwrap(a.clause).value
         IN IF ident # "strategy"
            THEN Err(Error(<<"attr", "ident">>, <<"expected 'strategy'">>))
            ELSE IF value = "spawn_blocking"
            THEN Ok(BlockingImplArgs(a.async_type, SpawnBlocking))
            ELSE IF value = "block_in_place"
            THEN Ok(BlockingImplArgs(a.async_type, BlockInPlace))
            ELSE Err(Error(<<"attr", "value">>,
                           <<"unknown strategy \"", value,
                             "\", expected \"spawn_blocking\" or \"block_in_place\"">>))

(***************************************************************************)
(* Marker recognition and stripping                                        *)
(***************************************************************************)
\* Mutant: only the first attribute is looked at.
has_async_wrap_attr_first_only(method) ==
    method.attrs # <<>> /\ method.attrs[1] = "async_wrap"

has_async_wrap_attr(method) ==
    \E i \in DOMAIN method.attrs : method.attrs[i] = "async_wrap"

\* Mutant: retain keeps the marker and drops the rest.
remove_async_wrap_attr_inverted(method) ==
    [method EXCEPT !.attrs = SelectSeq(method.attrs, LAMBDA p : p = "async_wrap")]

remove_async_wrap_attr(method) ==
    [method EXCEPT !.attrs = SelectSeq(method.attrs, LAMBDA p : p # "async_wrap")]

(***************************************************************************)
(* Method validator                                                        *)
(***************************************************************************)
\* The message texts of the source, with its backquotes written as '.
MsgAsync == <<"#[async_wrap] cannot be used on async methods">>
MsgMutSelf == <<"#[async_wrap] requires '&self', not '&mut self'">>
MsgOwnedSelf == <<"#[async_wrap] requires '&self', not 'self'">>
MsgNoSelf == <<"#[async_wrap] requires methods taking '&self'">>

is_self_by_ref(arg) ==
    arg.tag = "Receiver" /\ arg.reference /\ ~arg.mutability

\* Mutant: the receiver is checked before asyncness.
validate_receiver_before_async(method) ==
    IF method.inputs = <<>>
    THEN Err(Error(<<method.ident, "sig">>, MsgNoSelf))
    ELSE LET arg == Head(method.inputs)
         IN IF arg.tag = "Receiver" /\ arg.mutability
            THEN Err(Error(<<method.ident, "sig.inputs[0]">>, MsgMutSelf))
            ELSE IF arg.tag = "Receiver" /\ ~arg.reference
            THEN Err(Error(<<method.ident, "sig.inputs[0]">>, MsgOwnedSelf))
            ELSE IF ~is_self_by_ref(arg)
            THEN Err(Error(<<method.ident, "sig.inputs[0]">>, MsgNoSelf))
            ELSE IF method.asyncness
            THEN Err(Error(<<method.ident, "sig.asyncness">>, MsgAsync))
            ELSE Ok(UnitVal)

\* Mutant: the owned-receiver arm is tried before the mutable-receiver arm.
validate_owned_arm_first(method) ==
    IF method.asyncness
    THEN Err(Error(<<method.ident, "sig.asyncness">>, MsgAsync))
    ELSE IF method.inputs = <<>>
    THEN Err(Error(<<method.ident, "sig">>, MsgNoSelf))
    ELSE LET arg == Head(method.inputs)
         IN IF is_self_by_ref(arg) THEN Ok(UnitVal)
            ELSE IF arg.tag = "Receiver" /\ ~arg.reference
            THEN Err(Error(<<method.ident, "sig.inputs[0]">>, MsgOwnedSelf))
            ELSE IF arg.tag = "Receiver" /\ arg.mutability
            THEN Err(Error(<<method.ident, "sig.inputs[0]">>, MsgMutSelf))
            ELSE Err(Error(<<method.ident, "sig.inputs[0]">>, MsgNoSelf))

validate_async_wrap_method(method) ==
    IF method.asyncness
    THEN Err(Error(<<method.ident, "sig.asyncness">>, MsgAsync))
    ELSE IF method.inputs = <<>>
    THEN Err(Error(<<method.ident, "sig">>, MsgNoSelf))
    ELSE LET arg == Head(method.inputs)
         IN IF is_self_by_ref(arg) THEN Ok(UnitVal)
            ELSE IF arg.tag = "Receiver" /\ arg.mutability
            THEN Err(Error(<<method.ident, "sig.inputs[0]">>, MsgMutSelf))
            ELSE IF arg.tag = "Receiver" /\ ~arg.reference
            THEN Err(Error(<<method.ident, "sig.inputs[0]">>, MsgOwnedSelf))
            ELSE Err(Error(<<method.ident, "sig.inputs[0]">>, MsgNoSelf))

(***************************************************************************)
(* Method descriptor extractor                                             *)
(***************************************************************************)
is_result_type(ty) ==
    /\ ty.kind = "Path"
    /\ ty.segments # <<>>
    /\ ty.segments[Len(ty.segments)] = "Result"

RECURSIVE TypedIdentArgs(_)
\* The filter_map over sig.inputs: (identifier, type) of every typed argument
\* whose pattern is a plain identifier; receivers and other patterns are skipped.
TypedIdentArgs(inputs) ==
    IF inputs = <<>> THEN <<>>
    ELSE LET arg == Head(inputs)
         IN IF arg.tag = "Typed" /\ arg.pat.kind = "Ident"
            THEN <<[ident |-> arg.pat.ident, ty |-> arg.ty]>>
                 \o TypedIdentArgs(Tail(inputs))
            ELSE TypedIdentArgs(Tail(inputs))

MethodInfo(name, vis, fnArgs, ret, isResult, docs) ==
    [name |-> name, visibility |-> vis, args |-> fnArgs, return_type |-> ret,
     is_result |-> isResult, doc_attrs |-> docs]

extract_method_info(method) ==
    IF method.inputs = <<>> THEN None
    ELSE IF ~is_self_by_ref(Head(method.inputs)) THEN None
    ELSE Some(MethodInfo(
            method.ident,
            method.vis,
            TypedIdentArgs(method.inputs),
            method.output,
            IsSome(method.output) /\ is_result_type(Unwrap(method.output)),
            SelectSeq(method.attrs, LAMBDA p : p = "doc")))

(***************************************************************************)
(* Method synthesizer                                                      *)
(***************************************************************************)
UnitTy == TupleTy(<<>>)

\* -> ::asyncwrap::AsyncWrapResult<ty>
AsyncWrapResultOf(ty) == [wrapper |-> "AsyncWrapResult", ty |-> ty]
\* -> ::core::result::Result<ty, ::tokio::task::JoinError>
JoinResultOf(ty) == [wrapper |-> "JoinResult", ty |-> ty]
\* -> ty
Plain(ty) == [wrapper |-> "", ty |-> ty]

ArgNames(info) == [i \in DOMAIN info.args |-> info.args[i].ident]

AsyncFn(info, ret, body) ==
    [doc_attrs |-> info.doc_attrs, vis |-> info.visibility, asyncness |-> TRUE,
     ident |-> info.name, receiver |-> RefSelf, params |-> info.args,
     ret |-> ret, body |-> body]

\* Mutant: every SpawnBlocking return type is wrapped in AsyncWrapResult.
generate_async_method_always_wrap(info, strategy) ==
    IF strategy = SpawnBlocking
    THEN LET spawn_call == [offload |-> "spawn_blocking",
                            inner |-> "Arc::clone(&self.inner)",
                            callee |-> info.name,
                            call_args |-> ArgNames(info)]
         IN IF info.is_result
            THEN AsyncFn(info,
                         Some(AsyncWrapResultOf(Unwrap(info.return_type))),
                         [call |-> spawn_call,
                          post |-> <<"map_err(TaskFailed)?", "map_err(Inner)">>])
            ELSE AsyncFn(info,
                         Some(AsyncWrapResultOf(IF IsSome(info.return_type)
                                                THEN Unwrap(info.return_type)
                                                ELSE UnitTy)),
                         [call |-> spawn_call, post |-> <<>>])
    ELSE AsyncFn(info,
                 IF IsSome(info.return_type)
                 THEN Some(Plain(Unwrap(info.return_type)))
                 ELSE None,
                 [call |-> [offload |-> "block_in_place",
                            inner |-> "self.inner",
                            callee |-> info.name,
                            call_args |-> ArgNames(info)],
                  post |-> <<>>])

generate_async_method(info, strategy) ==
    IF strategy = SpawnBlocking
    THEN LET spawn_call == [offload |-> "spawn_blocking",
                            inner |-> "Arc::clone(&self.inner)",
                            callee |-> info.name,
                            call_args |-> ArgNames(info)]
         IN IF info.is_result
            THEN AsyncFn(info,
                         Some(AsyncWrapResultOf(Unwrap(info.return_type))),
                         [call |-> spawn_call,
                          post |-> <<"map_err(TaskFailed)?", "map_err(Inner)">>])
            ELSE AsyncFn(info,
                         Some(JoinResultOf(IF IsSome(info.return_type)
                                           THEN Unwrap(info.return_type)
                                           ELSE UnitTy)),
                         [call |-> spawn_call, post |-> <<>>])
    ELSE AsyncFn(info,
                 IF IsSome(info.return_type)
                 THEN Some(Plain(Unwrap(info.return_type)))
                 ELSE None,
                 [call |-> [offload |-> "block_in_place",
                            inner |-> "self.inner",
                            callee |-> info.name,
                            call_args |-> ArgNames(info)],
                  post |-> <<>>])

(***************************************************************************)
(* Block transformer: blocking_impl                                        *)
(***************************************************************************)
\* One top-level unit of the emitted token stream.
ImplUnit(block) == [unit |-> "impl", block |-> block]
CompileError(e) == [unit |-> "compile_error", message |-> e.message, span |-> e.span]
AsyncImpl(params, ty, where, methods) ==
    [unit |-> "async_impl", generic_params |-> params, async_type |-> ty,
     where_clause |-> where, methods |-> methods]

Idle == [state |-> "none"]

ExpandInit ==
    /\ attr \in Attrs
    /\ item \in Blocks
    /\ pc = "parse_args"
    /\ args = [tag |-> "Unparsed"]
    /\ input = item
    /\ idx = 1
    /\ async_methods = <<>>
    /\ errors = <<>>
    /\ output = <<>>

RunIdle ==
    /\ emitted = Idle
    /\ caller = "idle"
    /\ task = Idle
    /\ runner = "none"
    /\ result = Idle

Init == ExpandInit /\ RunIdle

\* parse_macro_input!(attr as BlockingImplArgs): on a parse error the macro
\* returns the error's compile_error and nothing else.
ParseArgs ==
    /\ pc = "parse_args"
    /\ args' = parse(attr)
    /\ IF args'.tag = "Err"
       THEN /\ output' = <<CompileError(args'.error)>>
            /\ pc' = "done"
       ELSE /\ output' = output
            /\ pc' = "scan"
    /\ UNCHANGED <<attr, item, input, idx, async_methods, errors>>
    /\ UNCHANGED runVars

\* Mutant: validation stops at the first violation.
ScanItem_first_error_only ==
    /\ pc = "scan"
    /\ idx <= Len(input.items)
    /\ LET method == input.items[idx]
       IN IF method.kind = "Fn" /\ has_async_wrap_attr(method)
          THEN LET v == validate_async_wrap_method(method)
                   info == extract_method_info(method)
               IN /\ errors' = IF v.tag = "Err" /\ errors = <<>>
                               THEN Append(errors, v.error)
                               ELSE errors
                  /\ async_methods' =
                        IF v.tag # "Err" /\ IsSome(info)
                        THEN Append(async_methods,
                                    generate_async_method(Unwrap(info),
                                                          args.value.strategy))
                        ELSE async_methods
                  /\ input' = [input EXCEPT
                                 !.items[idx] = remove_async_wrap_attr(method)]
          ELSE UNCHANGED <<errors, async_methods, input>>
    /\ idx' = idx + 1
    /\ UNCHANGED <<attr, item, pc, args, output>>
    /\ UNCHANGED runVars

\* One iteration of 'for item in &mut input.items'.
ScanItem ==
    /\ pc = "scan"
    /\ idx <= Len(input.items)
    /\ LET method == input.items[idx]
       IN IF method.kind = "Fn" /\ has_async_wrap_attr(method)
          THEN LET v == validate_async_wrap_method(method)
                   info == extract_method_info(method)
               IN /\ errors' = IF v.tag = "Err" THEN Append(errors, v.error)
                               ELSE errors
                  /\ async_methods' =
                        IF v.tag # "Err" /\ IsSome(info)
                        THEN Append(async_methods,
                                    generate_async_method(Unwrap(info),
                                                          args.value.strategy))
                        ELSE async_methods
                  /\ input' = [input EXCEPT
                                 !.items[idx] = remove_async_wrap_attr(method)]
          ELSE UNCHANGED <<errors, async_methods, input>>
    /\ idx' = idx + 1
    /\ UNCHANGED <<attr, item, pc, args, output>>
    /\ UNCHANGED runVars

\* Mutant: the companion block is emitted after the diagnostics.
EmitErrors_with_companion ==
    /\ pc = "scan"
    /\ idx > Len(input.items)
    /\ errors # <<>>
    /\ output' = <<ImplUnit(input)>>
                 \o [i \in DOMAIN errors |-> CompileError(errors[i])]
                 \o <<AsyncImpl(input.generics.params, args.value.async_type,
                                input.generics.where_clause, async_methods)>>
    /\ pc' = "done"
    /\ UNCHANGED <<attr, item, args, input, idx, async_methods, errors>>
    /\ UNCHANGED runVars

\* if !errors.is_empty() { return quote! { #input #(#compile_errors)* } }
EmitErrors ==
    /\ pc = "scan"
    /\ idx > Len(input.items)
    /\ errors # <<>>
    /\ output' = <<ImplUnit(input)>>
                 \o [i \in DOMAIN errors |-> CompileError(errors[i])]
    /\ pc' = "done"
    /\ UNCHANGED <<attr, item, args, input, idx, async_methods, errors>>
    /\ UNCHANGED runVars

\* quote! { #input #async_impl }
EmitAsyncImpl ==
    /\ pc = "scan"
    /\ idx > Len(input.items)
    /\ errors = <<>>
    /\ LET generic_params == input.generics.params
           async_impl ==
               IF generic_params = <<>>
               THEN AsyncImpl(<<>>, args.value.async_type, None, async_methods)
               ELSE AsyncImpl(generic_params, args.value.async_type,
                              input.generics.where_clause, async_methods)
       IN output' = <<ImplUnit(input), async_impl>>
    /\ pc' = "done"
    /\ UNCHANGED <<attr, item, args, input, idx, async_methods, errors>>
    /\ UNCHANGED runVars

(***************************************************************************)
(* Run time: one call of an emitted method                                 *)
(***************************************************************************)
\* enum AsyncWrapError<E> { Inner(E), TaskFailed(JoinError) }
Inner(e) == [tag |-> "Inner", error |-> e]
TaskFailed(e) == [tag |-> "TaskFailed", error |-> e]
\* tokio::task::JoinError: the offloaded unit panicked or was cancelled.
JoinError(why) == [tag |-> "JoinError", repr |-> why]

\* Result::map_err with the constructors the emitted body passes.
map_err_TaskFailed(r) == IF r.tag = "Err" THEN Err(TaskFailed(r.error)) ELSE r
map_err_Inner(r) == IF r.tag = "Err" THEN Err(Inner(r.error)) ELSE r

\* What awaiting the JoinHandle of spawn_blocking evaluates to.
JoinOutcome(outcome) ==
    IF outcome.tag = "Returned" THEN Ok(outcome.value)
    ELSE IF outcome.tag = "Panicked" THEN Err(JoinError("Panic"))
    ELSE Err(JoinError("Cancelled"))

\* Mutant: a join failure is reported through the Inner variant.
SpawnBody_join_as_inner(body, join) ==
    IF body.post = <<>> THEN join
    ELSE LET mapped == map_err_Inner(join)
         IN IF mapped.tag = "Err" THEN mapped
            ELSE map_err_Inner(mapped.value)

\* The emitted body applied to the join outcome:
\*   spawn_call.map_err(TaskFailed)?.map_err(Inner)     (result-shaped)
\*   spawn_call                                         (otherwise)
SpawnBody(body, join) ==
    IF body.post = <<>> THEN join
    ELSE LET mapped == map_err_TaskFailed(join)
         IN IF mapped.tag = "Err" THEN mapped      \* the ? operator returns
            ELSE map_err_Inner(mapped.value)

\* Types of the model whose values are Ok(_) or Err(_).
IsStdResult(ty) == ty \in {TyResult, TyIoResult}

\* The values a blocking method of declared return type out can return.
InnerValues(out) ==
    IF ~IsSome(out) THEN {UnitVal}
    ELSE IF IsStdResult(Unwrap(out))
    THEN {Ok(Val("s1")), Ok(Val("s2")), Err(Val("f1"))}
    ELSE {Val("v1"), Val("v2")}

\* The source method an emitted method forwards to.
SourceOf(m) ==
    CHOOSE src \in {output[1].block.items[i] : i \in DOMAIN output[1].block.items} :
        src.kind = "Fn" /\ src.ident = m.body.call.callee

\* inner.#name(#(#arg_names),*) type-checks only with one argument per
\* non-receiver parameter of the source method.
CallCompiles(m) ==
    Len(m.body.call.call_args) = Len(SourceOf(m).inputs) - 1

HasAsyncImpl ==
    pc = "done" /\ Len(output) = 2 /\ output[2].unit = "async_impl"

\* Mutant: the blocking call always runs on the calling thread.
Call_on_calling_thread(k) ==
    /\ HasAsyncImpl
    /\ caller = "idle"
    /\ k \in DOMAIN output[2].methods
    /\ CallCompiles(output[2].methods[k])
    /\ emitted' = output[2].methods[k]
    /\ IF emitted'.body.call.offload = "spawn_blocking"
       THEN /\ task' = [state |-> "running"]
            /\ runner' = "caller"
            /\ caller' = "awaiting"
       ELSE /\ task' = [state |-> "running"]
            /\ runner' = "caller"
            /\ caller' = "blocked"
    /\ UNCHANGED result
    /\ UNCHANGED expandVars

\* The caller invokes the k-th emitted method and reaches its first suspension.
Call(k) ==
    /\ HasAsyncImpl
    /\ caller = "idle"
    /\ k \in DOMAIN output[2].methods
    /\ CallCompiles(output[2].methods[k])
    /\ emitted' = output[2].methods[k]
    /\ IF emitted'.body.call.offload = "spawn_blocking"
       THEN /\ task' = [state |-> "queued"]
            /\ runner' = "none"
            /\ caller' = "awaiting"
       ELSE /\ task' = [state |-> "running"]
            /\ runner' = "caller"
            /\ caller' = "blocked"
    /\ UNCHANGED result
    /\ UNCHANGED expandVars

\* A thread of the blocking pool picks the unit up.
WorkerStart ==
    /\ task.state = "queued"
    /\ task' = [state |-> "running"]
    /\ runner' = "worker"
    /\ UNCHANGED <<emitted, caller, result>>
    /\ UNCHANGED expandVars

\* The blocking method returns v.
BlockingReturns(v) ==
    /\ task.state = "running"
    /\ v \in InnerValues(SourceOf(emitted).output)
    /\ task' = [state |-> "finished", outcome |-> [tag |-> "Returned", value |-> v]]
    /\ UNCHANGED <<emitted, caller, runner, result>>
    /\ UNCHANGED expandVars

\* The blocking method panics.
BlockingPanics ==
    /\ task.state = "running"
    /\ task' = [state |-> "finished", outcome |-> [tag |-> "Panicked"]]
    /\ UNCHANGED <<emitted, caller, runner, result>>
    /\ UNCHANGED expandVars

\* The runtime shuts down before the queued unit has started.
Cancel ==
    /\ task.state = "queued"
    /\ task' = [state |-> "finished", outcome |-> [tag |-> "Cancelled"]]
    /\ UNCHANGED <<emitted, caller, runner, result>>
    /\ UNCHANGED expandVars

\* spawn_blocking(..).await resumes and the rest of the body runs.
Resume ==
    /\ caller = "awaiting"
    /\ task.state = "finished"
    /\ result' = SpawnBody(emitted.body, JoinOutcome(task.outcome))
    /\ caller' = "returned"
    /\ UNCHANGED <<emitted, task, runner>>
    /\ UNCHANGED expandVars

\* Mutant: the inline value is wrapped in Ok.
InlineDone_wrapped ==
    /\ caller = "blocked"
    /\ task.state = "finished"
    /\ IF task.outcome.tag = "Returned"
       THEN /\ result' = Ok(task.outcome.value)
            /\ caller' = "returned"
       ELSE /\ result' = result
            /\ caller' = "unwound"
    /\ UNCHANGED <<emitted, task, runner>>
    /\ UNCHANGED expandVars

\* block_in_place(|| ..) hands back the closure's value; a panic unwinds
\* through the caller.
InlineDone ==
    /\ caller = "blocked"
    /\ task.state = "finished"
    /\ IF task.outcome.tag = "Returned"
       THEN /\ result' = task.outcome.value
            /\ caller' = "returned"
       ELSE /\ result' = result
            /\ caller' = "unwound"
    /\ UNCHANGED <<emitted, task, runner>>
    /\ UNCHANGED expandVars

Expand == ParseArgs \/ ScanItem \/ EmitErrors \/ EmitAsyncImpl

Run ==
    \/ \E k \in 1..Len(Idents) : Call(k)
    \/ WorkerStart
    \/ \E v \in InnerValues(None) \cup InnerValues(Some(TyI32))
                \cup InnerValues(Some(TyResult)) : BlockingReturns(v)
    \/ BlockingPanics
    \/ Cancel
    \/ Resume
    \/ InlineDone

Next == Expand \/ Run

Spec == Init /\ [][Next]_vars

\* The runtime polls the caller again once the JoinHandle it awaits is ready.
FairSpec == Spec /\ WF_vars(Resume)

(***************************************************************************)
(* Vocabulary of the properties, stated on the block as written (item)     *)
(***************************************************************************)
IsMarked(m) ==
    m.kind = "Fn" /\ \E i \in DOMAIN m.attrs : m.attrs[i] = "async_wrap"

\* The receiver shape of a method.
Shape(m) ==
    IF m.inputs = <<>> THEN "no_params"
    ELSE IF m.inputs[1].tag # "Receiver" THEN "not_receiver"
    ELSE IF ~m.inputs[1].reference THEN "owned_self"
    ELSE IF m.inputs[1].mutability THEN "mut_ref_self"
    ELSE "ref_self"

Violates(m) == m.asyncness \/ Shape(m) # "ref_self"

\* Indices of item.items the for loop has gone through.
Processed == 1 .. (idx - 1)

\* The identifiers of the items of a sequence that satisfy P, in order.
IdentsWhere(items, P(_)) ==
    LET sel == SelectSeq(items, P)
    IN [i \in DOMAIN sel |-> sel[i].ident]

MarkedViolating(m) == IsMarked(m) /\ Violates(m)

Diagnostics == SelectSeq(output, LAMBDA u : u.unit = "compile_error")
Companions == SelectSeq(output, LAMBDA u : u.unit = "async_impl")

SameButAttrs(a, b) == [a EXCEPT !.attrs = <<>>] = [b EXCEPT !.attrs = <<>>]

\* u is the impl block as written, up to the attributes of its items.
IsOriginalBlock(u) ==
    /\ u.unit = "impl"
    /\ u.block.self_ty = item.self_ty
    /\ u.block.generics = item.generics
    /\ DOMAIN u.block.items = DOMAIN item.items
    /\ \A i \in DOMAIN item.items : SameButAttrs(u.block.items[i], item.items[i])

Expanded == pc = "done" /\ args.tag = "Ok"

(***************************************************************************)
(* C1: when the configuration parses and some marked method fails          *)
(* validation, the emitted artifact is the original block followed by      *)
(* diagnostics only; no companion block is emitted, even when other marked *)
(* methods were synthesized.                                               *)
(***************************************************************************)
C1_NoCompanionOnViolation ==
    (Expanded /\ \E i \in DOMAIN item.items : MarkedViolating(item.items[i]))
    => /\ Len(output) >= 2
       /\ IsOriginalBlock(output[1])
       /\ \A i \in 2 .. Len(output) : output[i].unit = "compile_error"

C1_Witness ==
    /\ Expanded
    /\ errors # <<>>
    /\ async_methods # <<>>
    /\ Companions = <<>>

(***************************************************************************)
(* C2: violations are accumulated: after any number of loop iterations the *)
(* recorded errors are, in declaration order, one per marked method seen   *)
(* so far that fails validation, and the emitted diagnostics are exactly   *)
(* those.                                                                  *)
(***************************************************************************)
C2_OneDiagnosticPerViolation ==
    /\ args.tag = "Ok" =>
          [i \in DOMAIN errors |-> errors[i].span[1]]
            = IdentsWhere(SubSeq(item.items, 1, idx - 1), MarkedViolating)
    /\ Expanded =>
          [i \in DOMAIN Diagnostics |-> Diagnostics[i].span[1]]
            = IdentsWhere(item.items, MarkedViolating)

C2_Witness ==
    /\ Expanded
    /\ Len(Diagnostics) = 2
    /\ Diagnostics[1].message # Diagnostics[2].message

(***************************************************************************)
(* C3: when no violation is recorded, the emitted artifact is the original *)
(* block followed by exactly one companion block for the companion type,   *)
(* holding one synthesized method per marked method, in declaration order, *)
(* and nothing for unmarked items.                                         *)
(***************************************************************************)
C3_CompanionMirrorsMarked ==
    (Expanded /\ errors = <<>>)
    => /\ Len(output) = 2
       /\ IsOriginalBlock(output[1])
       /\ output[2].unit = "async_impl"
       /\ output[2].async_type = attr.async_type
       /\ [i \in DOMAIN output[2].methods |-> output[2].methods[i].ident]
            = IdentsWhere(item.items, IsMarked)

C3_Witness ==
    /\ Expanded
    /\ Len(Companions) = 1
    /\ \/ /\ Len(Companions[1].methods) = 2
          /\ Companions[1].methods[1].params # Companions[1].methods[2].params
       \/ /\ Len(Companions[1].methods) = 1
          /\ \E i \in DOMAIN item.items :
                item.items[i].kind = "Fn" /\ ~IsMarked(item.items[i])

MarkersStripped(block) ==
    \A i \in DOMAIN block.items :
        block.items[i].kind = "Fn" => ~IsMarked(block.items[i])

(***************************************************************************)
(* C4: when the block configuration fails to parse, the expansion carries  *)
(* a diagnostic, no companion block, and still the original impl block     *)
(* with its markers stripped.                                              *)
(***************************************************************************)
C4_BlockKeptOnConfigError ==
    (pc = "done" /\ args.tag = "Err")
    => /\ Diagnostics # <<>>
       /\ Companions = <<>>
       /\ \E i \in DOMAIN output :
             IsOriginalBlock(output[i]) /\ MarkersStripped(output[i].block)

MarkedAccepted(m) == IsMarked(m) /\ ~Violates(m)

\* The accepted marked methods seen so far, in declaration order.
AcceptedSoFar == SelectSeq(SubSeq(item.items, 1, idx - 1), MarkedAccepted)

(***************************************************************************)
(* C5: every synthesized method has the name, the visibility and the       *)
(* ordered (parameter name, parameter type) list of its source method      *)
(* minus the receiver, and forwards one argument per source parameter.     *)
(***************************************************************************)
C5_SignaturePreserved ==
    args.tag = "Ok" =>
      /\ Len(async_methods) = Len(AcceptedSoFar)
      /\ \A k \in DOMAIN async_methods :
            LET g == async_methods[k]
                src == AcceptedSoFar[k]
                n == Len(src.inputs) - 1
            IN /\ g.ident = src.ident
               /\ g.vis = src.vis
               /\ Len(g.params) = n
               /\ \A i \in 1 .. n :
                     /\ src.inputs[i + 1].tag = "Typed"
                     /\ g.params[i].ident = src.inputs[i + 1].pat.ident
                     /\ g.params[i].ty = src.inputs[i + 1].ty
               /\ Len(g.body.call.call_args) = n

(***************************************************************************)
(* Vocabulary of the run-time properties                                   *)
(***************************************************************************)
\* The strategy the configuration as written selects.
Detached ==
    \/ ~IsSome(attr.clause)
    \/ Unwrap(attr.clause) = [ident |-> "strategy", value |-> "spawn_blocking"]
Inline ==
    /\ IsSome(attr.clause)
    /\ Unwrap(attr.clause) = [ident |-> "strategy", value |-> "block_in_place"]

\* The return type, as written, is named Result.
ResultShaped(out) == IsSome(out) /\ Unwrap(out) \in {TyResult, TyIoResult}

\* The method, as written, that the emitted method under call came from.
Src == CHOOSE m \in {item.items[i] : i \in DOMAIN item.items} : m.ident = emitted.ident

Returned == caller = "returned"

(***************************************************************************)
(* C6: result-shaped return type under SpawnDetached: inner Ok(s) gives    *)
(* Ok(s), inner Err(f) gives Err(Inner(f)), a panic or cancellation gives  *)
(* Err(TaskFailed(join error)); nothing else, and never Inner for a join   *)
(* failure.                                                                *)
(***************************************************************************)
C6_ResultOutcome ==
    (Returned /\ Detached /\ ResultShaped(Src.output))
    => LET o == task.outcome
       IN IF o.tag = "Returned"
          THEN IF o.value.tag = "Ok"
               THEN result = Ok(o.value.value)
               ELSE result = Err(Inner(o.value.error))
          ELSE /\ result.tag = "Err"
               /\ result.error.tag = "TaskFailed"
               /\ result.error.error
                    = JoinError(IF o.tag = "Panicked" THEN "Panic" ELSE "Cancelled")

C6_Witness ==
    /\ Returned /\ Detached /\ ResultShaped(Src.output)
    /\ task.outcome.tag = "Panicked"
    /\ result = Err(TaskFailed(JoinError("Panic")))

(***************************************************************************)
(* C7: a return type that is not result-shaped, under SpawnDetached: the   *)
(* emitted return type is Result<T, JoinError> (T = () without a return    *)
(* type); normal completion gives Ok(value), a panic or cancellation gives *)
(* Err(join error) with no Inner/TaskFailed layer.                         *)
(***************************************************************************)
C7_PlainOutcome ==
    /\ (args.tag = "Ok" /\ Detached) =>
          \A k \in DOMAIN async_methods :
             ~ResultShaped(AcceptedSoFar[k].output) =>
                async_methods[k].ret =
                   Some(JoinResultOf(IF IsSome(AcceptedSoFar[k].output)
                                     THEN Unwrap(AcceptedSoFar[k].output)
                                     ELSE UnitTy))
    /\ (Returned /\ Detached /\ ~ResultShaped(Src.output)) =>
          LET o == task.outcome
          IN IF o.tag = "Returned"
             THEN result = Ok(o.value)
             ELSE result = Err(JoinError(IF o.tag = "Panicked" THEN "Panic"
                                         ELSE "Cancelled"))

C7_Witness ==
    /\ Returned /\ Detached
    /\ ~IsSome(Src.output)
    /\ emitted.ret = Some(JoinResultOf(UnitTy))
    /\ result = Ok(UnitVal)

(***************************************************************************)
(* C8: under RunInline the emitted return type is the source return type   *)
(* (none stays none), result-shaped or not, and the value returned is the  *)
(* blocking method's value with no wrapping.                               *)
(***************************************************************************)
C8_InlinePassThrough ==
    /\ (args.tag = "Ok" /\ Inline) =>
          \A k \in DOMAIN async_methods :
             async_methods[k].ret =
                IF IsSome(AcceptedSoFar[k].output)
                THEN Some(Plain(Unwrap(AcceptedSoFar[k].output)))
                ELSE None
    /\ (Returned /\ Inline) =>
          /\ task.outcome.tag = "Returned"
          /\ result = task.outcome.value

C8_Witness ==
    /\ Returned /\ Inline
    /\ ResultShaped(Src.output)
    /\ emitted.ret = Some(Plain(TyResult))
    /\ result = Err(Val("f1"))

\* The errors recorded for the i-th item of the block.
ErrorsOf(i) == SelectSeq(errors, LAMBDA e : e.span[1] = item.items[i].ident)

CheckedSync(i) ==
    i \in Processed /\ IsMarked(item.items[i]) /\ ~item.items[i].asyncness

(***************************************************************************)
(* C9: for a marked method that is not async, the validator accepts        *)
(* exactly when the first parameter is &self, and the four rejected shapes *)
(* (no parameters, mutable-reference receiver, owned receiver,             *)
(* non-receiver first parameter) get pairwise distinct messages.           *)
(***************************************************************************)
C9_FourDistinctMessages ==
    /\ \A i \in DOMAIN item.items :
          CheckedSync(i) =>
             /\ (ErrorsOf(i) = <<>>) <=> (Shape(item.items[i]) = "ref_self")
             /\ Len(ErrorsOf(i)) <= 1
    /\ \A i, j \in DOMAIN item.items :
          (/\ CheckedSync(i) /\ CheckedSync(j)
           /\ Shape(item.items[i]) # "ref_self"
           /\ Shape(item.items[j]) # "ref_self"
           /\ Shape(item.items[i]) # Shape(item.items[j]))
          => ErrorsOf(i)[1].message # ErrorsOf(j)[1].message

ExpectedMessage(m) ==
    IF m.inputs # <<>> /\ m.inputs[1].tag = "Receiver" /\ m.inputs[1].mutability
    THEN <<"#[async_wrap] requires '&self', not '&mut self'">>
    ELSE IF Shape(m) = "owned_self"
    THEN <<"#[async_wrap] requires '&self', not 'self'">>
    ELSE <<"#[async_wrap] requires methods taking '&self'">>

(***************************************************************************)
(* C9 as amended: for a marked method that is not async, the validator     *)
(* accepts exactly when the first parameter is &self; a receiver declared  *)
(* mut (&mut self, mut self) gets the "not &mut self" message, any other   *)
(* owned receiver the "not self" message, and both a missing parameter     *)
(* list and a non-receiver first parameter the same "requires methods      *)
(* taking &self" message; these three messages are pairwise distinct.      *)
(***************************************************************************)
C9_ThreeMessages ==
    \A i \in DOMAIN item.items :
       CheckedSync(i) =>
          /\ (ErrorsOf(i) = <<>>) <=> (Shape(item.items[i]) = "ref_self")
          /\ Shape(item.items[i]) # "ref_self" =>
                /\ Len(ErrorsOf(i)) = 1
                /\ ErrorsOf(i)[1].message = ExpectedMessage(item.items[i])

C9_Witness ==
    \E i, j \in DOMAIN item.items :
       /\ CheckedSync(i) /\ CheckedSync(j)
       /\ Shape(item.items[i]) = "no_params"
       /\ Shape(item.items[j]) = "not_receiver"
       /\ Len(ErrorsOf(i)) = 1 /\ Len(ErrorsOf(j)) = 1
       /\ ErrorsOf(i)[1].message = ErrorsOf(j)[1].message
       /\ ErrorsOf(i)[1].span # ErrorsOf(j)[1].span

(***************************************************************************)
(* C10: a marked method declared async is rejected whatever its receiver,  *)
(* with exactly one violation, which carries the async message, and no     *)
(* method is synthesized for it.                                           *)
(***************************************************************************)
C10_AsyncAlwaysRejected ==
    \A i \in DOMAIN item.items :
       (i \in Processed /\ IsMarked(item.items[i]) /\ item.items[i].asyncness)
       => /\ Len(ErrorsOf(i)) = 1
          /\ ErrorsOf(i)[1].message
               = <<"#[async_wrap] cannot be used on async methods">>
          /\ \A k \in DOMAIN async_methods :
                async_methods[k].ident # item.items[i].ident

C10_Witness ==
    \E i \in DOMAIN item.items :
       /\ i \in Processed /\ IsMarked(item.items[i]) /\ item.items[i].asyncness
       /\ Shape(item.items[i]) = "mut_ref_self"
       /\ Len(errors) = 1
       /\ errors[1].message = MsgAsync

\* The configuration has been parsed.
Parsed == pc # "parse_args"

ClauseIs(i, v) == IsSome(attr.clause) /\ Unwrap(attr.clause) = [ident |-> i, value |-> v]

(***************************************************************************)
(* C11: the configuration parser selects SpawnDetached exactly when the    *)
(* strategy clause is absent or its value is "spawn_blocking", RunInline   *)
(* exactly when the value is "block_in_place"; any other value is an error *)
(* that names the value and lists the two valid names and selects no       *)
(* strategy; an identifier other than strategy is rejected with            *)
(* "expected 'strategy'".                                                  *)
(***************************************************************************)
C11_StrategySelection ==
    Parsed =>
      /\ (args.tag = "Ok" /\ args.value.strategy = "SpawnBlocking")
            <=> (~IsSome(attr.clause) \/ ClauseIs("strategy", "spawn_blocking"))
      /\ (args.tag = "Ok" /\ args.value.strategy = "BlockInPlace")
            <=> ClauseIs("strategy", "block_in_place")
      /\ args.tag \in {"Ok", "Err"}
      /\ (IsSome(attr.clause) /\ Unwrap(attr.clause).ident # "strategy")
            => /\ args.tag = "Err"
               /\ args.error.message = <<"expected 'strategy'">>
      /\ (/\ IsSome(attr.clause)
          /\ Unwrap(attr.clause).ident = "strategy"
          /\ Unwrap(attr.clause).value \notin {"spawn_blocking", "block_in_place"})
            => /\ args.tag = "Err"
               /\ args.error.message =
                     <<"unknown strategy \"", Unwrap(attr.clause).value,
                       "\", expected \"spawn_blocking\" or \"block_in_place\"">>
      /\ args.tag = "Err" =>
            /\ async_methods = <<>>
            /\ output = <<CompileError(args.error)>>

C11_Witness ==
    /\ Parsed
    /\ ClauseIs("strategy", "Spawn_Blocking")
    /\ args.tag = "Err"
    /\ args.error.message[2] = "Spawn_Blocking"

\* The offloaded unit is over: it completed, panicked or was cancelled.
UnitFinished == task.state = "finished"

\* The blocking call itself came to an end.
BlockingCallEnded ==
    UnitFinished /\ task.outcome.tag \in {"Returned", "Panicked"}

C12_Safety ==
    Detached =>
      /\ task.state = "running" => runner = "worker"
      /\ runner # "caller"
      /\ caller \in {"idle", "awaiting", "returned"}
      /\ caller = "returned" => UnitFinished
      /\ result # Idle => (UnitFinished /\ caller = "returned")
      /\ (caller = "awaiting" /\ ~UnitFinished) => result = Idle

(***************************************************************************)
(* C12: under SpawnDetached the blocking call runs on a worker, never on   *)
(* the calling context; the caller resumes, and has a result, only after   *)
(* the offloaded unit has finished; and once the blocking call has ended   *)
(* the caller eventually resumes.                                          *)
(***************************************************************************)
C12_OffloadAndJoin ==
    /\ []C12_Safety
    /\ (Detached /\ BlockingCallEnded) ~> (caller = "returned")

C12_Witness ==
    /\ Detached
    /\ caller = "returned"
    /\ runner = "worker"
    /\ task.outcome.tag = "Panicked"
    /\ result # Idle

(***************************************************************************)
(* C13: when no violation is recorded, the companion block carries the     *)
(* original block's generic parameters and where-clause unchanged, for     *)
(* every block, also one with a where-clause and no generic parameters.    *)
(***************************************************************************)
C13_GenericsCarried ==
    (Expanded /\ errors = <<>>)
    => /\ Len(Companions) = 1
       /\ Companions[1].generic_params = item.generics.params
       /\ Companions[1].where_clause = item.generics.where_clause

RECURSIVE WithoutMarker(_)
\* A list of attributes without its markers, the others kept in order.
WithoutMarker(attrs) ==
    IF attrs = <<>> THEN <<>>
    ELSE IF Head(attrs) = "async_wrap" THEN WithoutMarker(Tail(attrs))
    ELSE <<Head(attrs)>> \o WithoutMarker(Tail(attrs))

\* The i-th item as written, the marker taken off if it is a method.
Stripped(i) ==
    IF item.items[i].kind = "Fn"
    THEN [item.items[i] EXCEPT !.attrs = WithoutMarker(item.items[i].attrs)]
    ELSE item.items[i]

EmittedBlocks == SelectSeq(output, LAMBDA u : u.unit = "impl")

(***************************************************************************)
(* C14: in every emitted artifact, with or without violations, no method   *)
(* of the block carries the marker, whether it passed or failed            *)
(* validation, and everything else is as written: unmarked items, item     *)
(* order, each marked method's signature, body and other attributes;       *)
(* stripping a method without a marker changes nothing.                    *)
(***************************************************************************)
C14_OnlyMarkersRemoved ==
    /\ args.tag = "Ok" =>
          /\ DOMAIN input.items = DOMAIN item.items
          /\ input.self_ty = item.self_ty /\ input.generics = item.generics
          /\ \A i \in DOMAIN item.items :
                input.items[i] = IF i \in Processed THEN Stripped(i)
                                 ELSE item.items[i]
    /\ Expanded => (Len(EmittedBlocks) = 1 /\ output[1].unit = "impl")
    /\ \A b \in DOMAIN EmittedBlocks :
          LET block == EmittedBlocks[b].block
          IN /\ block.self_ty = item.self_ty /\ block.generics = item.generics
             /\ DOMAIN block.items = DOMAIN item.items
             /\ \A i \in DOMAIN item.items :
                   /\ block.items[i] = Stripped(i)
                   /\ block.items[i].kind = "Fn" =>
                         /\ ~IsMarked(block.items[i])
                         /\ remove_async_wrap_attr(block.items[i]) = block.items[i]

C14_Witness ==
    /\ Expanded
    /\ errors # <<>>
    /\ \E i \in DOMAIN item.items :
          /\ IsMarked(item.items[i]) /\ Violates(item.items[i])
          /\ output[1].block.items[i].attrs = <<"allow">>
          /\ item.items[i].attrs = <<"async_wrap", "allow", "async_wrap">>

====
